---------------------------- MODULE Spec2Model ----------------------------
(***************************************************************************)
(* Teaser pipeline of the repository: etapa1 (trim + concatenation of the  *)
(* source videos), etapa2 (curation of transcript segments into a clip     *)
(* plan, clip extraction and merge) and etapa2b (reconciliation of the     *)
(* clips against the timeline of the source files).                        *)
(*                                                                         *)
(* Times are whole seconds.  A segment shorter than the minimum clip       *)
(* duration has an odd duration in the inputs enumerated here, so that the *)
(* halving of etapa2.py line 622 is exact.  Segment ids are the 0-based    *)
(* positions of the Python lists; sequences here are 1-based, so the       *)
(* segment with id i is segments[i + 1].                                   *)
(***************************************************************************)
EXTENDS Integers, Sequences, FiniteSets, TLC

VARIABLES
    cfg,                \* etapa2 module constants (lines 34-38) as a record
    sources,            \* the sources directory: file name -> duration
    segments,           \* the transcript's segments, in transcript order
    pc,                 \* position of the pipeline run
    concat,             \* layout of the concatenated video built by etapa1
    oracle_reply,       \* tokens of the oracle's raw reply (comma separated)
    selected_ids,       \* etapa2: candidate ids after padding
    mapped_segments,    \* etapa2: selection after the id mapping loop
    selected_segments,  \* etapa2: selection handed to the overlap filter
    filtered_segments,  \* etapa2: value returned by generate_teaser_segments
    path,               \* etapa2: "none", "oracle" or "fallback"
    clips,              \* etapa2: clips cut by extract_clips_with_offset
    gpt_debug,          \* the persisted request debug record
    timeline,           \* etapa2b: table built by build_video_timeline
    clips_mapping,      \* etapa2b: value of map_teaser_clips_to_videos
    lookup,             \* last find_video_for_timestamp call: [t, result]
    unprobable          \* source files whose duration etapa2b cannot probe

vars == << cfg, sources, segments, pc, concat, oracle_reply, selected_ids,
           mapped_segments, selected_segments, filtered_segments, path, clips, gpt_debug,
           timeline, clips_mapping, lookup, unprobable >>

---------------------------------------------------------------------------
(* Program constants                                                       *)

TARGET_TEASER_DURATION == 60
MIN_CLIP_DURATION == 5
MAX_CLIP_DURATION == 6
MIN_GAP_BETWEEN_CLIPS == 5
TRIM_SECONDS == 1
MAX_VIDEOS == 59

(* Bounds of the model                                                     *)

MaxSegs == 12          \* longest regular transcript
MaxReplyLen == 2       \* longest free-form oracle reply
MaxSources == 3        \* most files in the sources directory

---------------------------------------------------------------------------
(* Sequence helpers                                                        *)

Range(s) == { s[i] : i \in DOMAIN s }

Min2(a, b) == IF a < b THEN a ELSE b

Max2(a, b) == IF a > b THEN a ELSE b

Abs(x) == IF x < 0 THEN -x ELSE x

SetMax(S) == CHOOSE x \in S : \A y \in S : y <= x

\* Python s[:k]
Take(s, k) == SubSeq(s, 1, Min2(Max2(k, 0), Len(s)))

\* Mutant of Stride: the elements at 0-based positions step - 1, 2 step - 1, ...
StrideFromStep(s, step) ==
    [ j \in 1 .. (Len(s) \div step) |-> s[j * step] ]

\* Python s[::step] for step >= 1: elements at 0-based positions 0, step, ...
Stride(s, step) ==
    [ j \in 1 .. ((Len(s) + step - 1) \div step) |-> s[(j - 1) * step + 1] ]

\* Python range(lo, hi) as a sequence
RangeSeq(lo, hi) == [ j \in 1 .. Max2(hi - lo, 0) |-> lo + j - 1 ]

RECURSIVE InsertByStart(_, _)
InsertByStart(sorted, x) ==
    IF sorted = << >> THEN << x >>
    ELSE IF sorted[Len(sorted)].start <= x.start THEN Append(sorted, x)
    ELSE Append(InsertByStart(SubSeq(sorted, 1, Len(sorted) - 1), x),
                sorted[Len(sorted)])

\* list.sort(key=lambda x: x['start']): stable, ascending by start
RECURSIVE SortByStart(_)
SortByStart(s) ==
    IF s = << >> THEN << >>
    ELSE InsertByStart(SortByStart(SubSeq(s, 1, Len(s) - 1)), s[Len(s)])

RECURSIVE SumDurations(_)
SumDurations(s) ==
    IF s = << >> THEN 0
    ELSE (s[1].end - s[1].start) + SumDurations(Tail(s))

---------------------------------------------------------------------------
(* etapa2: configuration                                                   *)

ShippedConfig ==
    [ target   |-> TARGET_TEASER_DURATION,
      min_clip |-> MIN_CLIP_DURATION,
      max_clip |-> MAX_CLIP_DURATION,
      min_gap  |-> MIN_GAP_BETWEEN_CLIPS ]

\* The checks of validate_config on the teaser constants; the checks on the
\* input directory and on the API key concern the environment.
validate_config(c) ==
    /\ c.target > 0
    /\ c.min_clip > 0
    /\ c.max_clip > 0
    /\ c.min_clip <= c.max_clip

\* max_segments = int(TARGET_TEASER_DURATION / MIN_CLIP_DURATION)
MaxSegments(c) == c.target \div c.min_clip

---------------------------------------------------------------------------
(* etapa2: generate_teaser_segments                                        *)

\* A reply token is a natural number (a token for which str.isdigit() holds)
\* or Junk (any other token: empty, signed, text).
Junk == -1

\* [int(t) for t in reply.split(',') if t.strip().isdigit()]
ParseIds(reply) ==
    LET IsDigit(tok) == tok >= 0
    IN  SelectSeq(reply, IsDigit)

\* Mutant of PadIds: the list is completed up to 8 ids.
PadIdsToFloor(ids, n) ==
    IF Len(ids) >= 8 THEN ids
    ELSE
        LET Unused(i) == i \notin Range(ids)
            remaining_needed == 8 - Len(ids)
            first == Take(SelectSeq(RangeSeq(n \div 3, (2 * n) \div 3), Unused),
                          remaining_needed \div 2)
                        \o Take(SelectSeq(RangeSeq((7 * n) \div 10, n), Unused),
                                remaining_needed \div 2)
            additional_candidates ==
                IF Len(first) < remaining_needed
                THEN first \o Take(SelectSeq(RangeSeq(0, n), Unused),
                                   remaining_needed - Len(first))
                ELSE first
        IN  ids \o Take(additional_candidates, remaining_needed)

\* Mutant of PadIds: the candidates are taken from the whole list first.
PadIdsAnywhereFirst(ids, n) ==
    IF Len(ids) >= 8 THEN ids
    ELSE
        LET Unused(i) == i \notin Range(ids)
            remaining_needed == 12 - Len(ids)
        IN  ids \o Take(SelectSeq(RangeSeq(0, n), Unused), remaining_needed)

\* The padding branch, taken when fewer than 8 ids were parsed.
PadIds(ids, n) ==
    IF Len(ids) >= 8 THEN ids
    ELSE
        LET all_valid_ids == Range(ids)
            remaining_needed == 12 - Len(ids)
            Unused(i) == i \notin all_valid_ids
            meio_candidates == SelectSeq(RangeSeq(n \div 3, (2 * n) \div 3), Unused)
            fim_candidates == SelectSeq(RangeSeq((7 * n) \div 10, n), Unused)
            first == Take(meio_candidates, remaining_needed \div 2)
                        \o Take(fim_candidates, remaining_needed \div 2)
            all_candidates == SelectSeq(RangeSeq(0, n), Unused)
            additional_candidates ==
                IF Len(first) < remaining_needed
                THEN first \o Take(all_candidates, remaining_needed - Len(first))
                ELSE first
        IN  ids \o Take(additional_candidates, remaining_needed)

SegmentOf(segs, id) == [ id |-> id, start |-> segs[id + 1].start, end |-> segs[id + 1].end ]

\* Mutant of MapIds: an id outside [0, N) is mapped to the first segment.
MapIdsClamped(ids, segs) ==
    [ k \in DOMAIN ids |->
        SegmentOf(segs, IF 0 <= ids[k] /\ ids[k] < Len(segs) THEN ids[k] ELSE 0) ]

\* The id mapping loop: ids outside [0, N) are skipped.
MapIds(ids, segs) ==
    LET InRange(id) == 0 <= id /\ id < Len(segs)
        kept == SelectSeq(ids, InRange)
    IN  [ k \in DOMAIN kept |-> SegmentOf(segs, kept[k]) ]

AllSegments(segs) == [ i \in DOMAIN segs |-> SegmentOf(segs, i - 1) ]

\* video_duration = max(seg['end'] for seg in segments)
VideoDuration(segs) == SetMax({ segs[i].end : i \in DOMAIN segs })

\* Mutant of Degenerate: every non-empty selection is resampled.
DegenerateAlways(sel, segs) == sel # << >>

\* max_timestamp < video_duration * 0.3
Degenerate(sel, segs) ==
    /\ sel # << >>
    /\ 10 * SetMax({ sel[k].start : k \in DOMAIN sel }) < 3 * VideoDuration(segs)

MeioSegments(segs) ==
    LET vd == VideoDuration(segs)
        InMeio(g) == 3 * vd < 10 * g.start /\ 10 * g.start < 7 * vd
    IN  SelectSeq(AllSegments(segs), InMeio)

FimSegments(segs) ==
    LET vd == VideoDuration(segs)
        InFim(g) == 10 * g.start > 8 * vd
    IN  SelectSeq(AllSegments(segs), InFim)

\* The slices meio_segments[::len // 3] and fim_segments[::len // 2] raise
\* ValueError when the step is 0.
ResampleRaises(segs) ==
    \/ MeioSegments(segs) # << >> /\ Len(MeioSegments(segs)) \div 3 = 0
    \/ FimSegments(segs) # << >> /\ Len(FimSegments(segs)) \div 2 = 0

\* list({seg['start']: seg for seg in s}.values()): one entry per start, in the
\* order the starts first appear, each holding the last segment with that start.
DedupByStart(s) ==
    LET firsts == { i \in DOMAIN s : \A j \in 1 .. (i - 1) : s[j].start # s[i].start }
        Nth(k) == CHOOSE i \in firsts : Cardinality({ j \in firsts : j < i }) = k - 1
        LastOf(i) == s[SetMax({ j \in DOMAIN s : s[j].start = s[i].start })]
    IN  [ k \in 1 .. Cardinality(firsts) |-> LastOf(Nth(k)) ]

\* Mutant of ForceDistribution: every selected segment of the beginning is
\* kept.
ForceDistributionKeepAll(sel, segs) ==
    LET vd == VideoDuration(segs)
        InInicio(g) == 10 * g.start < 2 * vd
        inicio == SelectSeq(sel, InInicio)
        meio == MeioSegments(segs)
        fim == FimSegments(segs)
        with_meio == IF meio # << >>
                     THEN inicio \o Stride(meio, Len(meio) \div 3) ELSE inicio
        with_fim == IF fim # << >>
                    THEN with_meio \o Stride(fim, Len(fim) \div 2) ELSE with_meio
    IN  SortByStart(DedupByStart(with_fim))

\* The corrective resample (lines 375-391), when it does not raise.
ForceDistribution(sel, segs) ==
    LET vd == VideoDuration(segs)
        InInicio(g) == 10 * g.start < 2 * vd
        inicio == Take(SelectSeq(sel, InInicio), 2)
        meio == MeioSegments(segs)
        fim == FimSegments(segs)
        with_meio == IF meio # << >>
                     THEN inicio \o Stride(meio, Len(meio) \div 3) ELSE inicio
        with_fim == IF fim # << >>
                    THEN with_meio \o Stride(fim, Len(fim) \div 2) ELSE with_meio
    IN  SortByStart(DedupByStart(with_fim))

\* Mutant of Conflicts: the gap test is missing.
ConflictsOverlapOnly(segment, selected, min_gap) ==
    segment.start < selected.end /\ segment.end > selected.start

\* Lines 410-416: overlap, or gap below min_gap, with an accepted segment.
Conflicts(segment, selected, min_gap) ==
    \/ segment.start < selected.end /\ segment.end > selected.start
    \/ Min2(Abs(segment.start - selected.end),
            Abs(selected.start - segment.end)) < min_gap

\* Mutant of AntiOverlap: a candidate is compared with the last accepted
\* segment only.
RECURSIVE AntiOverlapLastOnly(_, _, _, _)
AntiOverlapLastOnly(cands, acc, min_gap, max_segments) ==
    IF cands = << >> THEN acc
    ELSE IF acc = << >>
         THEN AntiOverlapLastOnly(Tail(cands), << Head(cands) >>, min_gap, max_segments)
    ELSE IF Conflicts(Head(cands), acc[Len(acc)], min_gap)
         THEN AntiOverlapLastOnly(Tail(cands), acc, min_gap, max_segments)
    ELSE IF Len(acc) + 1 >= max_segments
         THEN Append(acc, Head(cands))
    ELSE AntiOverlapLastOnly(Tail(cands), Append(acc, Head(cands)), min_gap,
                             max_segments)

\* The anti-overlap loop of lines 403-421; the count is tested only after an
\* append in the else branch.
RECURSIVE AntiOverlap(_, _, _, _)
AntiOverlap(cands, acc, min_gap, max_segments) ==
    IF cands = << >> THEN acc
    ELSE IF acc = << >>
         THEN AntiOverlap(Tail(cands), << Head(cands) >>, min_gap, max_segments)
    ELSE IF \E k \in DOMAIN acc : Conflicts(Head(cands), acc[k], min_gap)
         THEN AntiOverlap(Tail(cands), acc, min_gap, max_segments)
    ELSE IF Len(acc) + 1 >= max_segments
         THEN Append(acc, Head(cands))
    ELSE AntiOverlap(Tail(cands), Append(acc, Head(cands)), min_gap, max_segments)

\* Mutant of OverlapResolver: the final sort is missing.
OverlapResolverUnsorted(cands, c) ==
    AntiOverlap(cands, << >>, c.min_gap, c.target \div c.min_clip)

\* Lines 398-424: the filter followed by the sort by start.
OverlapResolver(cands, c) ==
    SortByStart(AntiOverlap(cands, << >>, c.min_gap, MaxSegments(c)))

\* Mutant of Fallback: every segment is returned.
FallbackUncut(segs) == AllSegments(segs)

\* except RequestException: return segments[:8]
Fallback(segs) == Take(AllSegments(segs), 8)

---------------------------------------------------------------------------
(* etapa2: extract_clips_with_offset                                       *)

\* Mutant of AdjustClip: a short segment is extended on both sides of its own
\* bounds, so a start clamped to 0 shortens the clip.
AdjustClipBothSides(segment, c) ==
    LET duration == segment.end - segment.start
        extension == (c.min_clip - duration) \div 2
    IN  IF duration < c.min_clip
        THEN [ id |-> segment.id, start |-> Max2(0, segment.start - extension),
               end |-> segment.end + extension ]
        ELSE IF duration > c.max_clip
        THEN [ id |-> segment.id, start |-> segment.start,
               end |-> segment.start + c.max_clip ]
        ELSE [ id |-> segment.id, start |-> segment.start, end |-> segment.end ]

\* Mutant of AdjustClip: a long segment is not truncated.
AdjustClipNoTruncation(segment, c) ==
    LET duration == segment.end - segment.start
        extension == (c.min_clip - duration) \div 2
        start_time == Max2(0, segment.start - extension)
    IN  IF duration < c.min_clip
        THEN [ id |-> segment.id, start |-> start_time,
               end |-> start_time + c.min_clip ]
        ELSE [ id |-> segment.id, start |-> segment.start, end |-> segment.end ]

\* Mutant of AdjustClip: a long segment is truncated from its start.
AdjustClipKeepEnd(segment, c) ==
    LET duration == segment.end - segment.start
    IN  IF duration < c.min_clip
        THEN LET extension == (c.min_clip - duration) \div 2
                 start_time == Max2(0, segment.start - extension)
             IN  [ id |-> segment.id, start |-> start_time,
                   end |-> start_time + c.min_clip ]
        ELSE IF duration > c.max_clip
        THEN [ id |-> segment.id, start |-> segment.end - c.max_clip,
               end |-> segment.end ]
        ELSE [ id |-> segment.id, start |-> segment.start, end |-> segment.end ]

\* Lines 614-629: the bounds of the clip cut for one segment.
AdjustClip(segment, c) ==
    LET duration == segment.end - segment.start
    IN  IF duration < c.min_clip
        THEN LET extension == (c.min_clip - duration) \div 2
                 start_time == Max2(0, segment.start - extension)
             IN  [ id |-> segment.id, start |-> start_time,
                   end |-> start_time + c.min_clip ]
        ELSE IF duration > c.max_clip
        THEN [ id |-> segment.id, start |-> segment.start,
               end |-> segment.start + c.max_clip ]
        ELSE [ id |-> segment.id, start |-> segment.start, end |-> segment.end ]

AdjustAll(plan, c) == [ k \in DOMAIN plan |-> AdjustClip(plan[k], c) ]

---------------------------------------------------------------------------
(* etapa1: trim and concatenation                                          *)

\* video_files.sort(): the file names of a directory in ascending order
SortedNames(dir) ==
    LET names == DOMAIN dir
        Nth(k) == CHOOSE x \in names : Cardinality({ y \in names : y < x }) = k - 1
    IN  [ k \in 1 .. Cardinality(names) |-> Nth(k) ]

\* trim_video: ffmpeg -ss TRIM_SECONDS -to (duration - TRIM_SECONDS) keeps the
\* content between the two positions; ffmpeg refuses -to <= -ss.
TrimmedDuration(duration) == (duration - TRIM_SECONDS) - TRIM_SECONDS

TrimFails(dir, name, unprobed) ==
    name \in unprobed \/ dir[name] - TRIM_SECONDS <= TRIM_SECONDS

\* The concat demuxer plays the listed files back to back.
RECURSIVE ConcatLayout(_, _, _)
ConcatLayout(dir, names, begin) ==
    IF names = << >> THEN << >>
    ELSE << [ video_name |-> Head(names), begin |-> begin,
              duration |-> TrimmedDuration(dir[Head(names)]) ] >>
         \o ConcatLayout(dir, Tail(names),
                         begin + TrimmedDuration(dir[Head(names)]))

\* concat_videos returns a value only in the branch for several videos
\* (line 167); for a single video the function ends without a return.
ConcatReturnsTrue(video_list) == Len(video_list) # 1

---------------------------------------------------------------------------
(* etapa2b: timeline and clip mapping                                      *)

NoVideo == 0

\* build_video_timeline: a file whose duration cannot be probed is skipped.
RECURSIVE TimelineFrom(_, _, _, _)
TimelineFrom(dir, names, unprobed, accumulated_time) ==
    IF names = << >> THEN << >>
    ELSE IF Head(names) \in unprobed
         THEN TimelineFrom(dir, Tail(names), unprobed, accumulated_time)
    ELSE << [ video_name |-> Head(names),
              start_time |-> accumulated_time,
              end_time   |-> accumulated_time + dir[Head(names)],
              duration   |-> dir[Head(names)] ] >>
         \o TimelineFrom(dir, Tail(names), unprobed,
                         accumulated_time + dir[Head(names)])

\* Mutant of build_video_timeline: the file list is not in ascending order.
build_video_timeline_unsorted(dir, unprobed) ==
    TimelineFrom(dir, [ i \in DOMAIN SortedNames(dir) |->
                          SortedNames(dir)[Len(SortedNames(dir)) + 1 - i] ],
                 unprobed, 0)

build_video_timeline(dir, unprobed) ==
    TimelineFrom(dir, SortedNames(dir), unprobed, 0)

\* Mutant of SpanContains: the end of a span belongs to it.
SpanContainsInclusive(video_info, timestamp) ==
    video_info.start_time <= timestamp /\ timestamp <= video_info.end_time

\* Line 156: start_time <= timestamp < end_time
SpanContains(video_info, timestamp) ==
    video_info.start_time <= timestamp /\ timestamp < video_info.end_time

find_video_for_timestamp(tl, timestamp) ==
    IF \E k \in DOMAIN tl : SpanContains(tl[k], timestamp)
    THEN tl[CHOOSE k \in DOMAIN tl :
                /\ SpanContains(tl[k], timestamp)
                /\ \A j \in 1 .. (k - 1) : ~SpanContains(tl[j], timestamp)].video_name
    ELSE IF tl # << >> /\ timestamp >= tl[Len(tl)].start_time
    THEN tl[Len(tl)].video_name
    ELSE NoVideo

\* Mutant of MapClipsFrom: the loop ends at the first id outside [0, N).
RECURSIVE MapClipsStopAtInvalid(_, _, _, _)
MapClipsStopAtInvalid(ids, segs, tl, accumulated_duration) ==
    IF ids = << >> THEN << >>
    ELSE IF Head(ids) < 0 \/ Head(ids) >= Len(segs) THEN << >>
    ELSE LET segment == SegmentOf(segs, Head(ids))
             duration == segment.end - segment.start
         IN  << [ segment_id      |-> Head(ids),
                  start_in_concat |-> segment.start,
                  end_in_concat   |-> segment.end,
                  duration        |-> duration,
                  start_in_teaser |-> accumulated_duration,
                  end_in_teaser   |-> accumulated_duration + duration,
                  video_name      |-> find_video_for_timestamp(tl, segment.start) ] >>
             \o MapClipsStopAtInvalid(Tail(ids), segs, tl,
                                      accumulated_duration + duration)

\* Mutant of MapClipsFrom: the file is looked up by the end of the segment.
RECURSIVE MapClipsByEnd(_, _, _, _)
MapClipsByEnd(ids, segs, tl, accumulated_duration) ==
    IF ids = << >> THEN << >>
    ELSE IF Head(ids) < 0 \/ Head(ids) >= Len(segs)
         THEN MapClipsByEnd(Tail(ids), segs, tl, accumulated_duration)
    ELSE LET segment == SegmentOf(segs, Head(ids))
             duration == segment.end - segment.start
             video_name == find_video_for_timestamp(tl, segment.end)
         IN  IF video_name = NoVideo
             THEN MapClipsByEnd(Tail(ids), segs, tl, accumulated_duration + duration)
             ELSE << [ segment_id      |-> Head(ids),
                       start_in_concat |-> segment.start,
                       end_in_concat   |-> segment.end,
                       duration        |-> duration,
                       start_in_teaser |-> accumulated_duration,
                       end_in_teaser   |-> accumulated_duration + duration,
                       video_name      |-> video_name ] >>
                  \o MapClipsByEnd(Tail(ids), segs, tl, accumulated_duration + duration)

\* The loop of map_teaser_clips_to_videos over the parsed ids.
RECURSIVE MapClipsFrom(_, _, _, _)
MapClipsFrom(ids, segs, tl, accumulated_duration) ==
    IF ids = << >> THEN << >>
    ELSE IF Head(ids) < 0 \/ Head(ids) >= Len(segs)
         THEN MapClipsFrom(Tail(ids), segs, tl, accumulated_duration)
    ELSE LET segment == SegmentOf(segs, Head(ids))
             duration == segment.end - segment.start
             video_name == find_video_for_timestamp(tl, segment.start)
         IN  IF video_name = NoVideo
             THEN MapClipsFrom(Tail(ids), segs, tl, accumulated_duration + duration)
             ELSE << [ segment_id      |-> Head(ids),
                       start_in_concat |-> segment.start,
                       end_in_concat   |-> segment.end,
                       duration        |-> duration,
                       start_in_teaser |-> accumulated_duration,
                       end_in_teaser   |-> accumulated_duration + duration,
                       video_name      |-> video_name ] >>
                  \o MapClipsFrom(Tail(ids), segs, tl, accumulated_duration + duration)

map_teaser_clips_to_videos(segs, gpt_response, tl) ==
    MapClipsFrom(ParseIds(gpt_response), segs, tl, 0)

---------------------------------------------------------------------------
(* Inputs                                                                  *)

\* n segments of one duration, one every period seconds from s0; the last
\* one starts tail seconds later.  shape = << period, duration >>.
Regular(n, s0, shape, tail) ==
    [ i \in 1 .. n |->
        LET st == s0 + (i - 1) * shape[1] + (IF i = n /\ n > 1 THEN tail ELSE 0)
        IN  [ start |-> st, end |-> st + shape[2] ] ]

Shapes == { << 6, 1 >>, << 11, 5 >>, << 11, 7 >>, << 12, 7 >>, << 1, 1 >> }

RegularTranscripts ==
    { Regular(n, s0, sh, 0) : n \in 0 .. MaxSegs, s0 \in { 0, 1 }, sh \in Shapes }
        \cup { Regular(n, 0, << 6, 1 >>, 200) : n \in 2 .. MaxSegs }

\* A video of 100 s: three segments at its beginning, m segments starting in
\* its 30-70% region and t segments starting beyond 80% of it.
Spread(m, t) ==
    [ i \in 1 .. (3 + m + t) |->
        IF i <= 3 THEN [ start |-> i - 1, end |-> i ]
        ELSE IF i <= 3 + m THEN [ start |-> 27 + i, end |-> 28 + i ]
        ELSE IF i < 3 + m + t THEN [ start |-> 77 + i - m, end |-> 78 + i - m ]
        ELSE [ start |-> 77 + i - m, end |-> 100 ] ]

SpreadTranscripts ==
    { Spread(m, t) : m \in 0 .. (MaxSegs - 6), t \in 1 .. 3 }

FreeSegments ==
    { [ start |-> st, end |-> st + d ] : st \in { 0, 1, 7 }, d \in { 1, 7, 41 } }

\* Transcripts of one or two arbitrary segments, ordered by start.
FreeTranscripts ==
    { << a >> : a \in FreeSegments }
        \cup { p \in FreeSegments \X FreeSegments : p[1].start <= p[2].start }

Configs ==
    { ShippedConfig,
      [ ShippedConfig EXCEPT !.target = 5 ],
      [ ShippedConfig EXCEPT !.target = 10 ],
      [ ShippedConfig EXCEPT !.min_clip = 7 ] }

RECURSIVE SeqsUpTo(_, _)
SeqsUpTo(S, k) ==
    IF k = 0 THEN { << >> }
    ELSE SeqsUpTo(S, k - 1)
            \cup { Append(s, x) : s \in { t \in SeqsUpTo(S, k - 1) : Len(t) = k - 1 },
                                  x \in S }

Reverse(s) == [ i \in DOMAIN s |-> s[Len(s) + 1 - i] ]

\* Replies long enough to skip the padding branch: one id repeated 8 times,
\* in range or out of range.
LongReplies(n) == { [ i \in 1 .. 8 |-> 0 ], [ i \in 1 .. 8 |-> n ] }

\* A reply of 6 ids, all the first one: the padding adds 3 ids of the middle
\* and 3 of the tail.
RepeatedReplies == { [ i \in 1 .. 6 |-> 0 ], [ i \in 1 .. 7 |-> 0 ] }

\* A reply of 8 ids over the first three segments.
CyclingReplies(n) ==
    IF n >= 3 THEN { [ i \in 1 .. 8 |-> (i - 1) % 3 ] } ELSE { }

\* Replies: short ones over the first, last and first out-of-range id and a
\* non-digit token; the long replies of one id; for 8 segments or more, all
\* ids (both orders) and the first 8 ids.
Replies(n) ==
    SeqsUpTo({ Junk, 0, n - 1, n }, MaxReplyLen)
        \cup LongReplies(n) \cup RepeatedReplies \cup CyclingReplies(n)
        \cup (IF n >= 8
              THEN { RangeSeq(0, n), Reverse(RangeSeq(0, n)), RangeSeq(0, 8) }
              ELSE { })

SourceDirs(durations) ==
    UNION { [ names -> durations ] : names \in (SUBSET (1 .. MaxSources)) \ { { } } }

\* Sets of files whose duration probe fails in one run: none, one, or all.
ProbeFailures(dir) ==
    { { } } \cup { { x } : x \in DOMAIN dir } \cup { DOMAIN dir }

NoDebug == [ has_response |-> FALSE, response_content |-> << >> ]

---------------------------------------------------------------------------
(* The pipeline                                                            *)

InitRest ==
    /\ pc = "e1"
    /\ concat = << >>
    /\ oracle_reply = << >>
    /\ selected_ids = << >>
    /\ mapped_segments = << >>
    /\ selected_segments = << >>
    /\ filtered_segments = << >>
    /\ path = "none"
    /\ clips = << >>
    /\ gpt_debug = NoDebug
    /\ timeline = << >>
    /\ clips_mapping = << >>
    /\ lookup = [ t |-> 0, result |-> NoVideo, asked |-> FALSE ]

\* Curation runs: every transcript under the shipped constants, the free
\* transcripts under every configuration; a sources directory of two files
\* or of one; on the free transcripts, the first file may fail to be probed
\* when etapa2b builds its timeline.
Init ==
    /\ cfg \in Configs
    /\ segments \in RegularTranscripts \cup SpreadTranscripts \cup FreeTranscripts
    /\ (cfg = ShippedConfig \/ segments \in FreeTranscripts)
    /\ sources \in { [ x \in { 1, 2 } |-> 30 * x ], [ x \in { 1 } |-> 30 * x ] }
    /\ unprobable \in { { }, { 1 } }
    /\ unprobable # { } =>
          /\ cfg = ShippedConfig
          /\ segments \in FreeTranscripts
          /\ DOMAIN sources = { 1, 2 }
    /\ InitRest

\* The timeline functions alone: every sources directory and probe outcome.
InitTimeline ==
    /\ cfg = ShippedConfig
    /\ segments = << >>
    /\ sources \in SourceDirs({ 2, 3, 4 })
    /\ unprobable \in ProbeFailures(sources)
    /\ InitRest

\* etapa1 main: trim every source, concatenate, finalise.
Etapa1Main(unprobed) ==
    /\ pc = "e1"
    /\ LET video_files == Take(SortedNames(sources), MAX_VIDEOS)
           trimmed == \A k \in DOMAIN video_files :
                          ~TrimFails(sources, video_files[k], unprobed)
           ok == trimmed /\ ConcatReturnsTrue(video_files)
       IN  /\ concat' = IF ok THEN ConcatLayout(sources, video_files, 0) ELSE << >>
           /\ pc' = IF ok THEN "e2"
                    ELSE IF trimmed THEN "e1_concat_failed" ELSE "e1_aborted"
    /\ UNCHANGED << cfg, sources, segments, oracle_reply, selected_ids,
                    mapped_segments,
                    selected_segments, filtered_segments, path, clips, gpt_debug,
                    timeline, clips_mapping, lookup, unprobable >>

Etapa2CanCurate == validate_config(cfg) /\ segments # << >>

\* etapa2 main returns early: rejected configuration or empty transcript.
Etapa2Rejects ==
    /\ pc = "e2"
    /\ ~Etapa2CanCurate
    /\ pc' = "e2_aborted"
    /\ UNCHANGED << cfg, sources, segments, concat, oracle_reply, selected_ids,
                    mapped_segments,
                    selected_segments, filtered_segments, path, clips, gpt_debug,
                    timeline, clips_mapping, lookup, unprobable >>

\* generate_teaser_segments when the oracle answers with the reply `reply`.
CurateReply(reply) ==
    /\ pc = "e2"
    /\ Etapa2CanCurate
    /\ LET ids == PadIds(ParseIds(reply), Len(segments))
           mapped == MapIds(ids, segments)
           raises == Degenerate(mapped, segments) /\ ResampleRaises(segments)
           audited == IF Degenerate(mapped, segments)
                      THEN ForceDistribution(mapped, segments) ELSE mapped
           plan == OverlapResolver(audited, cfg)
       IN  /\ oracle_reply' = reply
           /\ gpt_debug' = NoDebug
           /\ selected_ids' = ids
           /\ mapped_segments' = mapped
           /\ path' = "oracle"
           /\ selected_segments' = IF raises THEN mapped ELSE audited
           /\ filtered_segments' = IF raises THEN << >> ELSE plan
           /\ pc' = IF raises THEN "e2_crashed"
                    ELSE IF plan = << >> THEN "e2_aborted" ELSE "e2_extract"
    /\ UNCHANGED << cfg, sources, segments, concat, clips, timeline,
                    clips_mapping, lookup, unprobable >>

\* generate_teaser_segments when the request raises RequestException.
CurateOracleFails ==
    /\ pc = "e2"
    /\ Etapa2CanCurate
    /\ gpt_debug' = NoDebug
    /\ path' = "fallback"
    /\ filtered_segments' = Fallback(segments)
    /\ pc' = "e2_extract"
    /\ UNCHANGED << cfg, sources, segments, concat, oracle_reply, selected_ids,
                    mapped_segments,
                    selected_segments, clips, timeline, clips_mapping, lookup, unprobable >>

\* generate_teaser_segments when the response lacks choices[0].message.content:
\* the KeyError is not a RequestException and leaves the function.
CurateMalformedResponse ==
    /\ pc = "e2"
    /\ Etapa2CanCurate
    /\ gpt_debug' = NoDebug
    /\ pc' = "e2_crashed"
    /\ UNCHANGED << cfg, sources, segments, concat, oracle_reply, selected_ids,
                    mapped_segments,
                    selected_segments, filtered_segments, path, clips, timeline,
                    clips_mapping, lookup, unprobable >>

\* extract_clips_with_offset; cut_ok: whether ffmpeg produced the clip files.
ExtractClips(cut_ok) ==
    /\ pc = "e2_extract"
    /\ clips' = IF cut_ok THEN AdjustAll(filtered_segments, cfg) ELSE << >>
    /\ pc' = IF cut_ok THEN "e2_merge" ELSE "e2_aborted"
    /\ UNCHANGED << cfg, sources, segments, concat, oracle_reply, selected_ids,
                    mapped_segments,
                    selected_segments, filtered_segments, path, gpt_debug,
                    timeline, clips_mapping, lookup, unprobable >>

\* merge_clips_sequential and the end of etapa2 main.
MergeClips ==
    /\ pc = "e2_merge"
    /\ pc' = "e2b"
    /\ UNCHANGED << cfg, sources, segments, concat, oracle_reply, selected_ids,
                    mapped_segments,
                    selected_segments, filtered_segments, path, clips, gpt_debug,
                    timeline, clips_mapping, lookup, unprobable >>

\* The debug records etapa2b may find as the latest one: the record etapa2
\* wrote (lines 306-311 store no reply) or, after an oracle reply, a record
\* with the response_content key that etapa2b lines 455-456 read.
DebugRecords ==
    { gpt_debug } \cup
        (IF path = "oracle"
         THEN { [ has_response |-> TRUE, response_content |-> oracle_reply ] }
         ELSE { })

\* etapa2b main: load the records, build the timeline, map the clips.
Etapa2bMain(rec) ==
    /\ pc = "e2b"
    /\ LET tl == build_video_timeline(sources, unprobable)
           mapping == map_teaser_clips_to_videos(segments, rec.response_content, tl)
       IN  IF ~rec.has_response \/ rec.response_content = << >>
           THEN /\ pc' = "e2b_stopped"
                /\ UNCHANGED << timeline, clips_mapping >>
           ELSE /\ timeline' = tl
                /\ clips_mapping' = IF tl = << >> THEN << >> ELSE mapping
                /\ pc' = IF tl = << >> \/ mapping = << >>
                         THEN "e2b_aborted" ELSE "done"
    /\ UNCHANGED << cfg, sources, segments, concat, oracle_reply, selected_ids,
                    mapped_segments,
                    selected_segments, filtered_segments, path, clips, gpt_debug,
                    lookup, unprobable >>

\* One call build_video_timeline(SOURCES_DIR), outside a pipeline run.
BuildTimeline ==
    /\ pc = "e1"
    /\ timeline' = build_video_timeline(sources, unprobable)
    /\ pc' = "timeline_built"
    /\ UNCHANGED << cfg, sources, segments, concat, oracle_reply, selected_ids,
                    mapped_segments,
                    selected_segments, filtered_segments, path, clips, gpt_debug,
                    clips_mapping, lookup, unprobable >>

\* One call find_video_for_timestamp(timeline, t) on the table just built.
FindVideo(t) ==
    /\ pc = "timeline_built"
    /\ ~lookup.asked
    /\ lookup' = [ t |-> t, result |-> find_video_for_timestamp(timeline, t),
                   asked |-> TRUE ]
    /\ UNCHANGED << cfg, sources, segments, pc, concat, oracle_reply, selected_ids,
                    mapped_segments,
                    selected_segments, filtered_segments, path, clips, gpt_debug,
                    timeline, clips_mapping, unprobable >>

Timestamps == -1 .. (MaxSources * 4 + 1)

Pipeline ==
    \/ \E unprobed \in ProbeFailures(sources) : Etapa1Main(unprobed)
    \/ Etapa2Rejects
    \/ \E reply \in Replies(Len(segments)) : CurateReply(reply)
    \/ CurateOracleFails
    \/ CurateMalformedResponse
    \/ \E cut_ok \in BOOLEAN : ExtractClips(cut_ok)
    \/ MergeClips
    \/ \E rec \in DebugRecords : Etapa2bMain(rec)

Next == Pipeline

NextTimeline ==
    \/ BuildTimeline
    \/ \E t \in Timestamps : FindVideo(t)

Spec == Init /\ [][Next]_vars

SpecTimeline == InitTimeline /\ [][NextTimeline]_vars

---------------------------------------------------------------------------
(* Properties                                                              *)

\* Distance between two intervals; negative when they share more than a point.
GapBetween(a, b) ==
    IF a.start >= b.end THEN a.start - b.end
    ELSE IF b.start >= a.end THEN b.start - a.end
    ELSE -1

OraclePlanReturned == path = "oracle" /\ pc # "e2_crashed"

ClipsCut == clips # << >>

\* The adjuster moved the start of this short segment to 0.
ClampedAtZero(segment) ==
    /\ segment.end - segment.start < cfg.min_clip
    /\ 2 * segment.start < cfg.min_clip - (segment.end - segment.start)

Extended(segment) == segment.end - segment.start < cfg.min_clip

\* C1: the output of the anti-overlap filter is sorted by start, every two of
\* its intervals are disjoint and at least MIN_GAP_BETWEEN_CLIPS apart, and a
\* candidate closer than that to another accepted interval is not in it.
C1_ResolverSeparates ==
    OraclePlanReturned =>
        /\ \A i, j \in DOMAIN filtered_segments :
              i < j =>
                /\ filtered_segments[i].start <= filtered_segments[j].start
                /\ filtered_segments[i].end <= filtered_segments[j].start
                /\ filtered_segments[j].start - filtered_segments[i].end >= cfg.min_gap
        /\ \A k \in DOMAIN selected_segments :
              (\E a \in Range(filtered_segments) :
                    /\ a # selected_segments[k]
                    /\ GapBetween(selected_segments[k], a) < cfg.min_gap)
                => selected_segments[k] \notin Range(filtered_segments)

\* Candidates out of start order, two accepted, and one dropped only because
\* it is closer than the minimum gap to an accepted interval.
C1_Witness ==
    /\ OraclePlanReturned
    /\ Len(filtered_segments) >= 2
    /\ \E i, j \in DOMAIN selected_segments :
          i < j /\ selected_segments[i].start > selected_segments[j].start
    /\ \E k \in DOMAIN selected_segments :
          /\ selected_segments[k] \notin Range(filtered_segments)
          /\ \E a \in Range(filtered_segments) :
                GapBetween(selected_segments[k], a) \in 0 .. (cfg.min_gap - 1)

\* C2 as stated: under the shipped constants, on either path no two distinct
\* clips, with the bounds the adjuster gave them, overlap in time.
C2_Original ==
    cfg = ShippedConfig =>
    \A i, j \in DOMAIN clips :
        i # j => (clips[i].end <= clips[j].start \/ clips[j].end <= clips[i].start)

\* C2 amended: on the oracle path an adjusted clip runs into a later one only
\* when its own start was clamped to 0.
C2_OraclePathDisjointUnlessClamped ==
    path = "oracle" /\ ClipsCut =>
        \A i, j \in DOMAIN clips :
            i < j => (clips[i].end <= clips[j].start
                        \/ ClampedAtZero(filtered_segments[i]))

\* Two neighbouring clips both extended, neither clamped, still apart.
C2_Witness ==
    /\ path = "oracle"
    /\ \E i \in DOMAIN clips :
          /\ i + 1 \in DOMAIN clips
          /\ Extended(filtered_segments[i]) /\ Extended(filtered_segments[i + 1])
          /\ ~ClampedAtZero(filtered_segments[i])
          /\ clips[i].start < filtered_segments[i].start
          /\ clips[i].end <= clips[i + 1].start

\* C3 as stated: under the shipped constants, on either path the clips, in
\* the order they are cut, have strictly increasing adjusted start.
C3_Original ==
    cfg = ShippedConfig =>
    \A i, j \in DOMAIN clips : i < j => clips[i].start < clips[j].start

\* C3 amended: on the oracle path the adjusted starts strictly increase.
C3_OraclePathIncreasing ==
    path = "oracle" =>
        \A i, j \in DOMAIN clips : i < j => clips[i].start < clips[j].start

\* Candidates reached the filter out of start order and the clips were cut.
C3_Witness ==
    /\ path = "oracle"
    /\ Len(clips) >= 3
    /\ \E i, j \in DOMAIN selected_segments :
          i < j /\ selected_segments[i].start > selected_segments[j].start
    /\ \E k \in DOMAIN clips : clips[k].start < filtered_segments[k].start

\* C4: every clip that is cut lasts between MIN_CLIP_DURATION and
\* MAX_CLIP_DURATION, whatever the duration of its segment.
C4_ClipDurationBounded ==
    \A k \in DOMAIN clips :
        /\ cfg.min_clip <= clips[k].end - clips[k].start
        /\ clips[k].end - clips[k].start <= cfg.max_clip

\* One plan with a clamped short segment and an over-long segment.
C4_Witness ==
    /\ ClipsCut
    /\ \E i, j \in DOMAIN clips :
          /\ ClampedAtZero(filtered_segments[i])
          /\ filtered_segments[j].end - filtered_segments[j].start > cfg.max_clip

\* C5 as stated: under the shipped constants the adjusted durations of the
\* plan never add up to more than TARGET_TEASER_DURATION.
C5_Original ==
    cfg = ShippedConfig => SumDurations(clips) <= cfg.target

\* C5 amended: under the shipped constants they never add up to more than
\* int(TARGET_TEASER_DURATION / MIN_CLIP_DURATION) * MAX_CLIP_DURATION.
C5_SumWithinCountTimesMax ==
    cfg = ShippedConfig => SumDurations(clips) <= MaxSegments(cfg) * cfg.max_clip

\* A plan whose clips add up to more than the target.
C5_Witness ==
    /\ cfg = ShippedConfig
    /\ path = "oracle"
    /\ SumDurations(clips) > cfg.target

\* C6: under an accepted configuration the filter never accepts more than
\* floor(TARGET_TEASER_DURATION / MIN_CLIP_DURATION) intervals.
C6_Original ==
    OraclePlanReturned /\ validate_config(cfg) =>
        Len(filtered_segments) <= MaxSegments(cfg)

\* C7: find_video_for_timestamp returns the span whose [start, end) holds the
\* timestamp (a boundary belongs to the later span), the last span for a
\* timestamp at or beyond the last end, and no video for a negative timestamp
\* or an empty table.
C7_LocateMatchesReference ==
    lookup.asked =>
        /\ \A k \in DOMAIN timeline :
              (timeline[k].start_time <= lookup.t /\ lookup.t < timeline[k].end_time)
                => lookup.result = timeline[k].video_name
        /\ (timeline # << >> /\ lookup.t >= timeline[Len(timeline)].end_time)
                => lookup.result = timeline[Len(timeline)].video_name
        /\ (lookup.t < 0 \/ timeline = << >>) => lookup.result = NoVideo

\* A lookup exactly on the boundary between two spans.
C7_Witness ==
    /\ lookup.asked
    /\ \E k \in DOMAIN timeline :
          /\ k + 1 \in DOMAIN timeline
          /\ lookup.t = timeline[k].end_time
          /\ lookup.result = timeline[k + 1].video_name

\* C8: the table of build_video_timeline starts at 0, each span ends at its
\* start plus its duration, each span starts where the previous one ends, and
\* the spans are in ascending file name order.
C8_TimelineContiguous ==
    timeline # << >> =>
        /\ timeline[1].start_time = 0
        /\ \A k \in DOMAIN timeline :
              /\ timeline[k].end_time = timeline[k].start_time + timeline[k].duration
              /\ timeline[k].duration = sources[timeline[k].video_name]
              /\ k > 1 => timeline[k].start_time = timeline[k - 1].end_time
        /\ \A i, j \in DOMAIN timeline :
              i < j => timeline[i].video_name < timeline[j].video_name

\* A table of several spans built while one file could not be probed.
C8_Witness ==
    /\ Len(timeline) >= 2
    /\ unprobable # { }
    /\ timeline[2].start_time > 0

\* C9: every span starts at the time at which its file's content begins in
\* the concatenated video built by etapa1 from the same directory.
C9_Original ==
    timeline # << >> /\ concat # << >> =>
        \A k \in DOMAIN timeline :
            \E c \in DOMAIN concat :
                /\ concat[c].video_name = timeline[k].video_name
                /\ concat[c].begin = timeline[k].start_time

\* C10: the clips mapped by map_teaser_clips_to_videos are the segments of
\* the plan returned by generate_teaser_segments, in the same order.
C10_Original ==
    pc = "done" =>
        [ k \in DOMAIN clips_mapping |-> clips_mapping[k].segment_id ]
            = [ k \in DOMAIN filtered_segments |-> filtered_segments[k].id ]

\* Duration of the clip extract_clips_with_offset cuts for a mapped entry.
AdjustedDuration(entry) ==
    AdjustClip(SegmentOf(segments, entry.segment_id), cfg).end
        - AdjustClip(SegmentOf(segments, entry.segment_id), cfg).start

\* Sum of the adjusted durations of the first k entries of the mapping.
RECURSIVE AdjustedDurationUpTo(_)
AdjustedDurationUpTo(k) ==
    IF k = 0 THEN 0
    ELSE AdjustedDurationUpTo(k - 1) + AdjustedDuration(clips_mapping[k])

\* The span of the timeline that holds the file of a mapped entry.
OwningSpan(entry) ==
    CHOOSE span \in Range(timeline) : span.video_name = entry.video_name

\* C11: every mapped entry starts, in the teaser, at the sum of the adjusted
\* durations of the entries mapped before it.
C11_Original ==
    pc = "done" =>
        \A k \in DOMAIN clips_mapping :
            clips_mapping[k].start_in_teaser = AdjustedDurationUpTo(k - 1)

\* C12: every mapped entry carries local_start and local_end, its interval
\* relative to the start of its owning span, with local_start inside the span.
C12_Original ==
    pc = "done" =>
        \A k \in DOMAIN clips_mapping :
            /\ { "local_start", "local_end" } \subseteq DOMAIN clips_mapping[k]
            /\ clips_mapping[k].local_start
                 = clips_mapping[k].start_in_concat
                     - OwningSpan(clips_mapping[k]).start_time
            /\ clips_mapping[k].local_end
                 = clips_mapping[k].end_in_concat
                     - OwningSpan(clips_mapping[k]).start_time
            /\ 0 <= clips_mapping[k].local_start
            /\ clips_mapping[k].local_start < OwningSpan(clips_mapping[k]).duration

\* C13: once a curation run in which the oracle replied has ended, the
\* persisted debug record holds the oracle's raw reply, so the reconciliation
\* run that reads it maps clips.
C13_Original ==
    pc = "e2b" /\ path = "oracle" =>
        /\ gpt_debug.has_response
        /\ gpt_debug.response_content = oracle_reply

\* C14: when the oracle request raises RequestException the function returns
\* the first min(8, N) segments in transcript order and the run goes on to
\* clip extraction.
C14_FallbackFirstEight ==
    path = "fallback" =>
        /\ Len(filtered_segments) = Min2(8, Len(segments))
        /\ \A k \in DOMAIN filtered_segments :
              /\ filtered_segments[k].id = k - 1
              /\ filtered_segments[k].start = segments[k].start
              /\ filtered_segments[k].end = segments[k].end
        /\ pc \in { "e2_extract", "e2_merge", "e2b", "e2b_stopped" }
             \/ (pc = "e2_aborted" /\ clips = << >>)
        /\ pc \in { "e2_merge", "e2b", "e2b_stopped" } =>
              Len(clips) = Len(filtered_segments)

\* A fallback plan of 8 out of more than 8 segments, cut into clips.
C14_Witness ==
    /\ path = "fallback"
    /\ Len(segments) > 8
    /\ Len(clips) = 8
    /\ pc = "e2_merge"

\* C15: a response that lacks the reply content is recovered by the fallback
\* of the first 8 segments; the run does not fail.
C15_Original ==
    path = "none" => pc # "e2_crashed"

\* Ids of a sequence that name a segment of the transcript.
InRangeIds(ids) ==
    LET InRange(id) == 0 <= id /\ id < Len(segments)
    IN  SelectSeq(ids, InRange)

\* C16: when no candidate id names a segment, the plan is empty and the run
\* aborts: no clip is cut and nothing is merged.
C16_EmptySelectionAborts ==
    path = "oracle" /\ InRangeIds(selected_ids) = << >> =>
        /\ mapped_segments = << >>
        /\ filtered_segments = << >>
        /\ clips = << >>
        /\ pc = "e2_aborted"

\* The oracle replied with ids and none of them names a segment.
C16_Witness ==
    /\ path = "oracle"
    /\ selected_ids # << >>
    /\ InRangeIds(selected_ids) = << >>
    /\ pc = "e2_aborted"

\* The oracle's reply names an id outside [0, N).
ReplyHasOutOfRangeId ==
    \E k \in DOMAIN ParseIds(oracle_reply) :
        ParseIds(oracle_reply)[k] >= Len(segments)

\* etapa2b main called map_teaser_clips_to_videos on the oracle's reply.
ClipsMapped == pc \in { "done", "e2b_aborted" } /\ timeline # << >>

\* C17 as stated: an id outside [0, N) in the reply never makes the curation
\* or the reconciliation abort.
C17_Original ==
    path = "oracle" /\ ReplyHasOutOfRangeId =>
        /\ ~(pc = "e2_aborted" /\ mapped_segments = << >>)
        /\ ~(pc = "e2b_aborted" /\ clips_mapping = << >>)

\* C17 amended: both stages map exactly the ids inside [0, N), each to the
\* segment at that position, in their order in the list; the stage goes on
\* whenever at least one id remains.
C17_InRangeIdsMappedInOrder ==
    /\ path = "oracle" =>
          /\ Len(mapped_segments) = Len(InRangeIds(selected_ids))
          /\ \A k \in DOMAIN mapped_segments :
                /\ mapped_segments[k].id = InRangeIds(selected_ids)[k]
                /\ mapped_segments[k].start = segments[mapped_segments[k].id + 1].start
                /\ mapped_segments[k].end = segments[mapped_segments[k].id + 1].end
    /\ ClipsMapped =>
          /\ Len(clips_mapping) = Len(InRangeIds(ParseIds(oracle_reply)))
          /\ \A k \in DOMAIN clips_mapping :
                /\ clips_mapping[k].segment_id = InRangeIds(ParseIds(oracle_reply))[k]
                /\ clips_mapping[k].start_in_concat
                     = segments[clips_mapping[k].segment_id + 1].start
                /\ clips_mapping[k].end_in_concat
                     = segments[clips_mapping[k].segment_id + 1].end
          /\ InRangeIds(ParseIds(oracle_reply)) # << >> => pc = "done"

\* A reply whose first id is out of range and whose second id is mapped by
\* both stages.
C17_Witness ==
    /\ pc = "done"
    /\ Len(oracle_reply) = 2
    /\ oracle_reply[1] >= Len(segments)
    /\ Len(clips_mapping) = 1
    /\ clips_mapping[1].segment_id = oracle_reply[2]
    /\ Len(mapped_segments) < Len(selected_ids)

\* C18: after padding and id mapping the selection holds at least min(8, N)
\* distinct segments.
C18_Original ==
    path = "oracle" =>
        Cardinality({ mapped_segments[k].id : k \in DOMAIN mapped_segments })
            >= Min2(8, Len(segments))

\* Ids of [0, N) that the oracle's reply does not name.
UnusedIds ==
    { i \in 0 .. (Len(segments) - 1) : i \notin Range(ParseIds(oracle_reply)) }

\* The padding branch ran on the oracle's reply.
Padded == path = "oracle" /\ Len(ParseIds(oracle_reply)) < 8

\* C19 as stated: a reply of fewer than 8 ids is padded to exactly 8 entries
\* when enough unused ids exist, and never to more than 8.
C19_Original ==
    Padded =>
        /\ Len(selected_ids) <= 8
        /\ Cardinality(UnusedIds) >= 8 - Len(ParseIds(oracle_reply))
              => Len(selected_ids) = 8

\* C19 amended: it is padded to exactly 12 entries when enough unused ids
\* exist, and never to more than 12.
C19_PaddedToTwelve ==
    Padded =>
        /\ Len(selected_ids) <= 12
        /\ Cardinality(UnusedIds) >= 12 - Len(ParseIds(oracle_reply))
              => Len(selected_ids) = 12

\* A reply of one id padded with 11 unused ids.
C19_Witness ==
    /\ Padded
    /\ Len(ParseIds(oracle_reply)) = 1
    /\ Cardinality(UnusedIds) >= 11
    /\ Len(selected_ids) = 12

\* C20: the oracle's ids are a prefix of the padded list, and every id added
\* after them is in [0, N), was not returned by the oracle, and is added once.
C20_Original ==
    Padded =>
        /\ Len(selected_ids) >= Len(ParseIds(oracle_reply))
        /\ \A k \in DOMAIN ParseIds(oracle_reply) :
              selected_ids[k] = ParseIds(oracle_reply)[k]
        /\ \A k \in (Len(ParseIds(oracle_reply)) + 1) .. Len(selected_ids) :
              /\ selected_ids[k] \in UnusedIds
              /\ \A j \in (Len(ParseIds(oracle_reply)) + 1) .. Len(selected_ids) :
                    j # k => selected_ids[j] # selected_ids[k]

\* C21: when the reply has fewer than 8 ids and some segment of the
\* transcript starts after half of the video duration, the selection after
\* padding and id mapping holds a segment that starts after half of it.
C21_Original ==
    Padded /\ (\E i \in DOMAIN segments :
                  2 * segments[i].start > VideoDuration(segments)) =>
        \E k \in DOMAIN mapped_segments :
            2 * mapped_segments[k].start > VideoDuration(segments)

\* The distribution check found the mapped selection concentrated at the
\* beginning of the video.
Resampled == path = "oracle" /\ Degenerate(mapped_segments, segments)

\* C22: whenever the selection is found degenerate the corrective resample
\* completes; it never raises, whatever the number of segments in the
\* 30-70% region and beyond 80%.
C22_Original ==
    Resampled => pc # "e2_crashed"

\* The corrective resample ran to its end.
ResampleDone == Resampled /\ pc # "e2_crashed"

\* Positions of a selection whose segment starts below 20% of the video.
LowStarts(sel) ==
    { k \in DOMAIN sel : 10 * sel[k].start < 2 * VideoDuration(segments) }

\* C23: after a corrective resample the selection holds at most 2 segments
\* starting below 20% of the video duration, both from the original
\* selection, and every other segment starts after 30% of it.
C23_ResampleKeepsTwoEarly ==
    ResampleDone =>
        /\ Cardinality(LowStarts(selected_segments)) <= 2
        /\ \A k \in LowStarts(selected_segments) :
              selected_segments[k] \in Range(mapped_segments)
        /\ \A k \in DOMAIN selected_segments :
              k \notin LowStarts(selected_segments) =>
                  10 * selected_segments[k].start > 3 * VideoDuration(segments)

\* Three distinct early segments were selected; two of them are kept beside
\* segments of the middle and of the end.
C23_Witness ==
    /\ ResampleDone
    /\ Cardinality({ mapped_segments[k].id : k \in LowStarts(mapped_segments) }) >= 3
    /\ Cardinality(LowStarts(selected_segments)) = 2
    /\ Len(selected_segments) >= 7

\* C24: when the duration of a source file cannot be probed, the timeline is
\* not built and the reconciliation aborts; no clip is mapped against a table
\* that omits a source file.
C24_Original ==
    clips_mapping # << >> =>
        /\ unprobable = { }
        /\ \A name \in DOMAIN sources :
              \E k \in DOMAIN timeline : timeline[k].video_name = name

\* C25: the file of a mapped entry is the file of the span that contains the
\* entry's start, wherever its end lies; the entry keeps the whole interval
\* of its segment, and entries with equal starts have the same file.
C25_SourceByStartAlone ==
    ClipsMapped =>
        /\ \A k \in DOMAIN clips_mapping :
              LET entry == clips_mapping[k]
                  segment == SegmentOf(segments, entry.segment_id)
              IN  /\ entry.start_in_concat = segment.start
                  /\ entry.end_in_concat = segment.end
                  /\ \A j \in DOMAIN timeline :
                        /\ timeline[j].start_time <= entry.start_in_concat
                        /\ entry.start_in_concat < timeline[j].end_time
                        => entry.video_name = timeline[j].video_name
        /\ \A i, k \in DOMAIN clips_mapping :
              clips_mapping[i].start_in_concat = clips_mapping[k].start_in_concat
                  => clips_mapping[i].video_name = clips_mapping[k].video_name

\* Two mapped entries with the same start, one of them ending in the span
\* after the one in which it starts.
C25_Witness ==
    /\ pc = "done"
    /\ Len(timeline) = 2
    /\ \E i, k \in DOMAIN clips_mapping :
          /\ i # k
          /\ clips_mapping[i].start_in_concat = clips_mapping[k].start_in_concat
          /\ clips_mapping[i].end_in_concat < timeline[1].end_time
          /\ clips_mapping[k].start_in_concat < timeline[1].end_time
          /\ clips_mapping[k].end_in_concat > timeline[2].start_time
          /\ clips_mapping[k].video_name = timeline[1].video_name

\* Lines 336-337: the ids of the middle third of a list of n segments.
MeioIds(n) == { i \in 0 .. (n - 1) : n \div 3 <= i /\ i < (2 * n) \div 3 }

\* Lines 341-342: the ids of the tail of a list of n segments.
FimIds(n) == { i \in 0 .. (n - 1) : (7 * n) \div 10 <= i }

\* The ids the padding added before position k of the padded list.
AddedBefore(k) ==
    { selected_ids[j] : j \in (Len(ParseIds(oracle_reply)) + 1) .. (k - 1) }

\* The positions of the padded list at which the padding added an id that
\* lies outside the middle third and outside the tail.
OutsidePositions ==
    { k \in (Len(ParseIds(oracle_reply)) + 1) .. Len(selected_ids) :
        selected_ids[k] \notin MeioIds(Len(segments)) \cup FimIds(Len(segments)) }

\* C26 as stated: an id outside the middle third and the tail is added only
\* after every unused id of the middle third and of the tail has been added.
C26_Original ==
    Padded =>
        \A k \in OutsidePositions :
            (UnusedIds \cap (MeioIds(Len(segments)) \cup FimIds(Len(segments))))
                \subseteq AddedBefore(k)

\* C26 amended: an id outside the middle third and the tail is added only
\* after the first (12 - L) \div 2 unused ids of the middle third and the
\* first (12 - L) \div 2 unused ids of the tail (all of them when there are
\* fewer) have been added, L being the number of ids the oracle returned.
C26_HalfFromMiddleHalfFromTail ==
    Padded =>
        LET half == (12 - Len(ParseIds(oracle_reply))) \div 2
            meio == UnusedIds \cap MeioIds(Len(segments))
            fim == UnusedIds \cap FimIds(Len(segments))
        IN  \A k \in OutsidePositions :
                /\ Cardinality(AddedBefore(k) \cap meio) >= Min2(half, Cardinality(meio))
                /\ Cardinality(AddedBefore(k) \cap fim) >= Min2(half, Cardinality(fim))
                /\ \A i \in AddedBefore(k) \cap meio :
                      \A j \in meio : j < i => j \in AddedBefore(k)
                /\ \A i \in AddedBefore(k) \cap fim :
                      \A j \in fim : j < i => j \in AddedBefore(k)

\* An id outside both regions was added while an unused id of the middle
\* third was left out.
C26_Witness ==
    /\ Padded
    /\ OutsidePositions # { }
    /\ \E i \in UnusedIds \cap MeioIds(Len(segments)) : i \notin Range(selected_ids)
    /\ \E k \in OutsidePositions : AddedBefore(k) \cap MeioIds(Len(segments)) # { }

\* The 1-based positions s[::step] takes from a list of n elements.
StridePositions(n, step) == { p \in 1 .. n : (p - 1) % step = 0 }

\* The starts of the segments of a selection that lie in a region of the
\* transcript.
StartsIn(sel, region) ==
    { sel[k].start : k \in DOMAIN sel } \cap { region[k].start : k \in DOMAIN region }

C28_AuditorKeepsSpreadSelection ==
    /\ path = "oracle"
    /\ mapped_segments # << >>
    /\ \E k \in DOMAIN mapped_segments :
          10 * mapped_segments[k].start >= 3 * VideoDuration(segments)
    => /\ pc # "e2_crashed"
       /\ selected_segments = mapped_segments

\* A spread selection that is not in chronological order and holds one
\* segment twice reaches the overlap filter as it is.
C28_Witness ==
    /\ path = "oracle"
    /\ selected_segments = mapped_segments
    /\ \E k \in DOMAIN mapped_segments :
          10 * mapped_segments[k].start >= 3 * VideoDuration(segments)
    /\ \E i, j \in DOMAIN mapped_segments :
          i < j /\ mapped_segments[i].start > mapped_segments[j].start
    /\ \E i, j \in DOMAIN mapped_segments :
          i < j /\ mapped_segments[i] = mapped_segments[j]
    /\ MeioSegments(segments) # << >>

\* C29: the clip cut for a segment shorter than MIN_CLIP_DURATION starts at
\* or after 0 and contains the whole interval of the segment, also when its
\* start was clamped to 0; the clip cut for a segment longer than
\* MAX_CLIP_DURATION starts where the segment starts.
C29_ExtensionContainsSegment ==
    ClipsCut =>
        \A k \in DOMAIN clips :
            LET segment == filtered_segments[k]
                duration == segment.end - segment.start
            IN  /\ duration < cfg.min_clip =>
                      /\ 0 <= clips[k].start
                      /\ clips[k].start <= segment.start
                      /\ segment.end <= clips[k].end
                /\ duration > cfg.max_clip =>
                      /\ clips[k].start = segment.start
                      /\ clips[k].end < segment.end

\* A short segment starting after 0 whose clip was clamped to 0, cut beside
\* a truncated long segment.
C29_Witness ==
    /\ ClipsCut
    /\ \E i, j \in DOMAIN clips :
          /\ ClampedAtZero(filtered_segments[i])
          /\ filtered_segments[i].start > 0
          /\ clips[i].start = 0
          /\ clips[i].end > filtered_segments[i].end
          /\ filtered_segments[j].end - filtered_segments[j].start > cfg.max_clip
          /\ clips[j].end < filtered_segments[j].end

\* C30: with a single video in the sources directory concat_videos reports
\* success, so etapa1 main runs past the concatenation to its end.
C30_Original ==
    Cardinality(DOMAIN sources) = 1 => pc # "e1_concat_failed"

=============================================================================
